---- MODULE Spec2Model ----
(***************************************************************************)
(* Signal sampling experiment (src/signal_sampling_experiment.py).         *)
(*                                                                         *)
(* Two specifications:                                                     *)
(*   Spec          the interactive session: interactive_experiment with    *)
(*                 its nested update_plot and on_key callbacks;            *)
(*   SpecSpectrum  the one-sided spectrum construction of analyze_spectrum *)
(*                 and update_plot applied to sample counts drawn from     *)
(*                 1 .. MaxSamples.                                        *)
(*                                                                         *)
(* Sample amplitudes and FFT magnitudes are real numbers; the model keeps  *)
(* what the code decides about them: the sampling grid (count and rate),   *)
(* the number of retained bins and the set of bins whose magnitude is      *)
(* multiplied by two.                                                      *)
(***************************************************************************)
EXTENDS Integers, Sequences, FiniteSets, TLC

VARIABLES
    fs_current,   \* nonlocal fs_current of interactive_experiment
    N_current,    \* nonlocal N_current of interactive_experiment
    mode,         \* "starting" (before plt.show), "ready" (event loop), "closed"
    event,        \* event.key of the key event handled last ("none" before any)
    redrawn,      \* TRUE iff the handler of the last event called update_plot
    raised,       \* TRUE iff the last update_plot call raised an exception
    written,      \* file name written by the handler of the last event, or NoFile
    view,         \* the figure: artists of ax1 and ax2, limits, titles
    an            \* spectrum construction applied to a drawn sample count

vars == <<fs_current, N_current, mode, event, redrawn, raised, written, view, an>>

(***************************************************************************)
(* Program constants                                                       *)
(***************************************************************************)
f1 == 1000
f2 == 1100
fs_init == 4000
N_init == 1000
fs_step == 500
N_step == 100

(***************************************************************************)
(* Bounds of the model                                                     *)
(***************************************************************************)
\* 'up' is accepted while fs_current < MaxFsSteps * fs_step
MaxFsSteps == 9
\* 'right' is accepted while N_current < MaxNSteps * N_step
MaxNSteps == 11
\* sample counts drawn for the spectrum construction: 1 .. MaxSamples
MaxSamples == 40

MaxFs == MaxFsSteps * fs_step
MaxN == MaxNSteps * N_step

NoFile == ""
NoEvent == "none"
\* "x" stands for any key other than the six the handler names
Keys == {"up", "down", "left", "right", "s", "q", "x"}

Min(a, b) == IF a <= b THEN a ELSE b
Max(a, b) == IF a >= b THEN a ELSE b

(***************************************************************************)
(* str(int) as the f-strings format it                                     *)
(***************************************************************************)
Digit(d) ==
    CASE d = 0 -> "0" [] d = 1 -> "1" [] d = 2 -> "2" [] d = 3 -> "3"
      [] d = 4 -> "4" [] d = 5 -> "5" [] d = 6 -> "6" [] d = 7 -> "7"
      [] d = 8 -> "8" [] d = 9 -> "9"

RECURSIVE NatToStr(_)
NatToStr(n) == IF n < 10 THEN Digit(n) ELSE NatToStr(n \div 10) \o Digit(n % 10)

IntToStr(n) == IF n < 0 THEN "-" \o NatToStr(0 - n) ELSE NatToStr(n)

(***************************************************************************)
(* Python slice a[start:stop] on an array of length len: the indices       *)
(* (0-based) it selects.  A negative bound counts from the end and is      *)
(* clamped at 0; a bound past the end is clamped at len.                   *)
(***************************************************************************)
SliceBound(i, len) == IF i < 0 THEN Max(i + len, 0) ELSE Min(i, len)

SliceIndices(start, stop, len) ==
    SliceBound(start, len) .. (SliceBound(stop, len) - 1)

(***************************************************************************)
(* analyze_spectrum, lines 47-55: magnitude = magnitude[:N//2];            *)
(* magnitude[1:-1] = 2 * magnitude[1:-1]; freqs = fftfreq(N, 1/fs)[:N//2]  *)
(***************************************************************************)
analyze_spectrum(N) ==
    LET kept == Cardinality(SliceIndices(0, N \div 2, N))
    IN  [bins |-> kept, doubled |-> SliceIndices(1, -1, kept)]

(***************************************************************************)
(* update_plot, lines 164-172: half_point = N_current//2;                  *)
(* magnitude = abs(spectrum[:half_point]) / N_current;                     *)
(* magnitude[1:half_point-1] *= 2                                          *)
(***************************************************************************)
update_plot_spectrum(N) ==
    LET half_point == N \div 2
        kept == Cardinality(SliceIndices(0, half_point, N))
    IN  [bins |-> kept, doubled |-> SliceIndices(1, half_point - 1, kept)]

(***************************************************************************)
(* The figure.  A Line2D of ax2 is a record: its line style, the x of a    *)
(* vertical line (0 for data lines) and its legend label ("" for none).    *)
(***************************************************************************)
f1_line == [style |-> "--", x |-> f1, label |-> "f1=" \o IntToStr(f1) \o "Hz"]
f2_line == [style |-> "--", x |-> f2, label |-> "f2=" \o IntToStr(f2) \o "Hz"]
\* ax2.stem adds the marker line (markers only) and the base line (solid);
\* the stems themselves are a LineCollection, not a member of ax2.lines
stem_markerline == [style |-> "None", x |-> 0, label |-> ""]
stem_baseline == [style |-> "-", x |-> 0, label |-> ""]
fit_curve == [style |-> "-", x |-> 0, label |-> "Spectrum Fit Curve"]

\* axis limits not yet set by set_xlim (autoscaled)
AutoLimit == <<0, 0>>

\* the sample data of a line of ax1: N samples taken at k/fs, k = 0 .. N-1
NoData == [n |-> 0, fs |-> 0]

\* the figure as built by lines 122-147, before the first update_plot
view_init ==
    [time_line      |-> NoData,
     sample_points  |-> NoData,
     points_visible |-> TRUE,
     ax1_xmax       |-> AutoLimit,
     ax1_title      |-> "",
     ax2_lines      |-> <<f1_line, f2_line>>,
     ax2_legend     |-> <<f1_line.label, f2_line.label>>,
     stem           |-> [bins |-> 0, doubled |-> {}],
     fit            |-> "none",
     ax2_xmax       |-> AutoLimit,
     ax2_title      |-> ""]

\* lines 188-191: the lines of ax2 drawn dashed
IsRefLine(line) == line.style = "--"
ref_lines(lines) == SelectSeq(lines, IsRefLine)

\* faulty variant of ax2_clear: the old artists are kept
ax2_not_cleared(lines) == lines

\* line 194: ax2.clear() removes every artist (and the legend and title)
ax2_clear(lines) == <<>>

\* lines 202-206: one new reference line per saved line whose x is f1 or f2
IsF1OrF2(line) == line.x = f1 \/ line.x = f2
redraw_ref_lines(refs) ==
    LET hit == SelectSeq(refs, IsF1OrF2)
    IN  [i \in 1 .. Len(hit) |-> IF hit[i].x = f1 THEN f1_line ELSE f2_line]

\* lines 213-223 (and 80-90): which fitting curve is computed for len(freqs) bins
fit_branch(bins) ==
    IF bins > 3 THEN (IF bins > 10 THEN "spline" ELSE "quadratic") ELSE "none"

\* ax2.legend(): the labels of the labelled lines, in drawing order
HasLabel(line) == line.label # ""
legend_of(lines) ==
    LET lab == SelectSeq(lines, HasLabel) IN [i \in 1 .. Len(lab) |-> lab[i].label]

\* faulty variant of title_status: the threshold is twice f1 instead of twice f2
title_status_f1(fs) == IF fs < 2 * f1 THEN "Undersampling" ELSE "Proper Sampling"

\* lines 238-241
title_status(fs) == IF fs < 2 * f2 THEN "Undersampling" ELSE "Proper Sampling"

\* lines 243-244: the part of both titles after 'Time Domain - ' / 'Frequency Domain - '
title_tail(fs, N) ==
    title_status(fs) \o ": Fs=" \o IntToStr(fs) \o "Hz, N=" \o IntToStr(N)

\* line 233: x_max = min(2 * f2, fs_current / 2), as the fraction <<numerator, 2>>
x_max(fs) == <<Min(2 * (2 * f2), fs), 2>>

(***************************************************************************)
(* update_plot(), lines 153-246, run on the figure prev with               *)
(* fs_current = fs and N_current = N.  The result is the set of outcomes   *)
(* the call can have, each the figure after the call and whether the call  *)
(* raised:                                                                 *)
(*   N <= 0  np.arange(N) is empty and fft of an empty array raises at     *)
(*           line 164;                                                     *)
(*   fs = 0  1/fs_current raises ZeroDivisionError at line 172.            *)
(* Both come before the first artist is touched (line 175), so the figure  *)
(* is left exactly as it was.                                              *)
(*   N = 1   half_point = 0: ax2.stem (line 209) is handed empty arrays.   *)
(*           Whether stem draws nothing or raises on empty input is left   *)
(*           to the installed matplotlib, so both outcomes are kept: the   *)
(*           call completes, or it raises at line 209 with ax1 updated,    *)
(*           ax2 cleared and only the reference lines drawn again.         *)
(***************************************************************************)
update_plot(prev, fs, N) ==
    LET data == [n |-> N, fs |-> fs]
        ax1 == [prev EXCEPT !.time_line = data,
                            !.sample_points = IF N <= 100 THEN data ELSE @,
                            !.points_visible = (N <= 100)]
        sp == update_plot_spectrum(N)
        refs == ref_lines(prev.ax2_lines)
        l0 == ax2_clear(prev.ax2_lines) \o redraw_ref_lines(refs)
        l1 == l0 \o <<stem_markerline, stem_baseline>>
        fit == fit_branch(sp.bins)
        l2 == IF fit # "none" THEN l1 \o <<fit_curve>> ELSE l1
        drawn ==
            [view |->
                 [ax1 EXCEPT !.ax1_xmax = <<N - 1, fs>>,
                             !.ax2_lines = l2,
                             !.ax2_legend = IF fit # "none" THEN legend_of(l2) ELSE <<>>,
                             !.stem = sp,
                             !.fit = fit,
                             !.ax2_xmax = x_max(fs),
                             !.ax1_title = "Time Domain - " \o title_tail(fs, N),
                             !.ax2_title = "Frequency Domain - " \o title_tail(fs, N)],
             raised |-> FALSE]
        stem_raised ==
            [view |->
                 [ax1 EXCEPT !.ax1_xmax = <<N - 1, fs>>,
                             !.ax2_lines = l0,
                             !.ax2_legend = <<>>,
                             !.stem = [bins |-> 0, doubled |-> {}],
                             !.fit = "none",
                             !.ax2_xmax = AutoLimit,
                             !.ax2_title = ""],
             raised |-> TRUE]
    IN  IF N <= 0 \/ fs = 0 THEN {[view |-> prev, raised |-> TRUE]}
        ELSE IF sp.bins = 0 THEN {drawn, stem_raised}
        ELSE {drawn}

(***************************************************************************)
(* on_key(event), lines 249-274                                            *)
(***************************************************************************)
\* faulty variant of on_key_branch: the floor of 'down' is tested with >= (fs may reach 0)
on_key_branch_weak_fs(key, fs, N) ==
    IF key = "up" THEN "up"
    ELSE IF key = "down" /\ fs >= fs_step THEN "down"
    ELSE IF key = "right" THEN "right"
    ELSE IF key = "left" /\ N > N_step THEN "left"
    ELSE IF key = "s" THEN "s"
    ELSE IF key = "q" THEN "q"
    ELSE "else"

\* faulty variant of on_key_branch: 'left' is not guarded by the floor
on_key_branch_no_floor_N(key, fs, N) ==
    IF key = "up" THEN "up"
    ELSE IF key = "down" /\ fs > fs_step THEN "down"
    ELSE IF key = "right" THEN "right"
    ELSE IF key = "left" THEN "left"
    ELSE IF key = "s" THEN "s"
    ELSE IF key = "q" THEN "q"
    ELSE "else"

\* the branch of the if/elif chain (lines 252-272) taken for event.key = key
on_key_branch(key, fs, N) ==
    IF key = "up" THEN "up"
    ELSE IF key = "down" /\ fs > fs_step THEN "down"
    ELSE IF key = "right" THEN "right"
    ELSE IF key = "left" /\ N > N_step THEN "left"
    ELSE IF key = "s" THEN "s"
    ELSE IF key = "q" THEN "q"
    ELSE "else"

\* lines 253, 256: fs_current after the branch
on_key_fs(branch, fs) ==
    CASE branch = "up" -> fs + fs_step
      [] branch = "down" -> fs - fs_step
      [] OTHER -> fs

\* faulty variant of on_key_N: 'left' subtracts the frequency step
on_key_N_wrong_step(branch, N) ==
    CASE branch = "right" -> N + N_step
      [] branch = "left" -> N - fs_step
      [] OTHER -> N

\* lines 259, 262: N_current after the branch
on_key_N(branch, N) ==
    CASE branch = "right" -> N + N_step
      [] branch = "left" -> N - N_step
      [] OTHER -> N

\* faulty variant of on_key_filename: the file is named by the initial settings
on_key_filename_init(fs, N) ==
    "experiment_fs_" \o IntToStr(fs_init) \o "_N_" \o IntToStr(N_init) \o ".png"

\* line 265: f'experiment_fs_{fs_current}_N_{N_current}.png'
on_key_filename(fs, N) ==
    "experiment_fs_" \o IntToStr(fs) \o "_N_" \o IntToStr(N) \o ".png"

\* faulty variant of on_key_closes: 'q' returns without closing the figure
on_key_never_closes(branch) == FALSE

\* line 269: plt.close(fig) in the 'q' branch
on_key_closes(branch) == branch = "q"

\* faulty variant of on_key_redraws: the 'right' branch returns before update_plot
on_key_redraws_not_right(branch) == branch \notin {"q", "else", "right"}

\* lines 270, 272, 274: the 'q' and else branches return, every other branch
\* falls through to update_plot()
on_key_redraws(branch) == branch \notin {"q", "else"}

(***************************************************************************)
(* The interactive session                                                 *)
(***************************************************************************)
an_idle == [pc |-> "idle", N |-> 0, bins |-> 0, doubled |-> {}]

\* lines 116-151: settings and figure built, update_plot not yet called
Init ==
    /\ fs_current = fs_init
    /\ N_current = N_init
    /\ mode = "starting"
    /\ event = NoEvent
    /\ redrawn = FALSE
    /\ raised = FALSE
    /\ written = NoFile
    /\ view = view_init
    /\ an = an_idle

\* lines 277-284: the first update_plot(), mpl_connect, plt.show(); an
\* exception of the first update_plot propagates and ends the program
Start ==
    /\ mode = "starting"
    /\ \E r \in update_plot(view, fs_current, N_current) :
           /\ view' = r.view
           /\ raised' = r.raised
           /\ mode' = IF r.raised THEN "closed" ELSE "ready"
    /\ redrawn' = TRUE
    /\ UNCHANGED <<fs_current, N_current, event, written, an>>

\* a key press delivered to on_key while the figure is open; the handler
\* runs to completion.  An exception of update_plot inside the callback is
\* reported by the GUI event loop, which keeps running.
OnKey(key) ==
    /\ mode = "ready"
    /\ key = "up" => fs_current < MaxFs
    /\ key = "right" => N_current < MaxN
    /\ LET branch == on_key_branch(key, fs_current, N_current)
           fs == on_key_fs(branch, fs_current)
           N == on_key_N(branch, N_current)
       IN  /\ event' = key
           /\ fs_current' = fs
           /\ N_current' = N
           /\ written' = IF branch = "s"
                         THEN on_key_filename(fs_current, N_current)
                         ELSE NoFile
           /\ mode' = IF on_key_closes(branch) THEN "closed" ELSE "ready"
           /\ redrawn' = on_key_redraws(branch)
           /\ IF on_key_redraws(branch)
              THEN \E r \in update_plot(view, fs, N) :
                      view' = r.view /\ raised' = r.raised
              ELSE view' = view /\ raised' = FALSE
    /\ UNCHANGED an

Next == Start \/ \E key \in Keys : OnKey(key)

Spec == Init /\ [][Next]_vars

(***************************************************************************)
(* The spectrum construction on drawn sample counts                        *)
(***************************************************************************)
session_vars == <<fs_current, N_current, mode, event, redrawn, raised, written, view>>

InitSpectrum ==
    /\ fs_current = fs_init
    /\ N_current = N_init
    /\ mode = "starting"
    /\ event = NoEvent
    /\ redrawn = FALSE
    /\ raised = FALSE
    /\ written = NoFile
    /\ view = view_init
    /\ an \in {[pc |-> "input", N |-> n, bins |-> 0, doubled |-> {}] : n \in 1 .. MaxSamples}

AnalyzeSpectrum ==
    /\ an.pc = "input"
    /\ LET sp == analyze_spectrum(an.N)
       IN  an' = [pc |-> "analyze_spectrum", N |-> an.N,
                  bins |-> sp.bins, doubled |-> sp.doubled]
    /\ UNCHANGED session_vars

UpdatePlotSpectrum ==
    /\ an.pc = "input"
    /\ LET sp == update_plot_spectrum(an.N)
       IN  an' = [pc |-> "update_plot", N |-> an.N,
                  bins |-> sp.bins, doubled |-> sp.doubled]
    /\ UNCHANGED session_vars

NextSpectrum == AnalyzeSpectrum \/ UpdatePlotSpectrum

SpecSpectrum == InitSpectrum /\ [][NextSpectrum]_vars

(***************************************************************************)
(* Properties                                                              *)
(***************************************************************************)
config == <<fs_current, N_current>>

\* the titles update_plot must show for sampling frequency fs and count N
ExpectedStatus(fs) == IF fs < 2200 THEN "Undersampling" ELSE "Proper Sampling"
ExpectedTail(status, fs, N) ==
    status \o ": Fs=" \o ToString(fs) \o "Hz, N=" \o ToString(N)

\* C1: in every reachable state of the session samplingFrequency and
\* sampleCount are strictly positive and at least one step (500 and 100).
C1_ConfigAtLeastOneStep ==
    /\ fs_current > 0 /\ N_current > 0
    /\ fs_current >= 500 /\ N_current >= 100

\* C1 witness: both parameters were driven down to their floors.
C1_Witness ==
    mode = "ready" /\ fs_current = 500 /\ N_current = 100

\* C2: a decrease is applied (value -= step) exactly when the value exceeds
\* one step; at the floor the event leaves the configuration and the figure
\* unchanged, writes nothing, raises nothing and the session stays ready.
C2_FloorIgnored ==
    [][ /\ event' = "down" =>
             /\ fs_current' = (IF fs_current > 500 THEN fs_current - 500 ELSE fs_current)
             /\ N_current' = N_current
             /\ mode' = "ready" /\ ~raised' /\ written' = NoFile
             /\ (fs_current = 500 => view' = view /\ ~redrawn')
        /\ event' = "left" =>
             /\ N_current' = (IF N_current > 100 THEN N_current - 100 ELSE N_current)
             /\ fs_current' = fs_current
             /\ mode' = "ready" /\ ~raised' /\ written' = NoFile
             /\ (N_current = 100 => view' = view /\ ~redrawn')
      ]_vars

\* C2 witness: a 'down' event was rejected at the floor (no redraw followed).
C2_Witness ==
    mode = "ready" /\ event = "down" /\ fs_current = 500 /\ ~redrawn

\* C3: for every sample count N >= 2 the doubled bins are 1 .. floor(N/2)-2
\* when N is even and 1 .. floor(N/2)-1 when N is odd, in analyze_spectrum
\* and in update_plot.
C3_DoubledBinsByParity ==
    (an.pc \in {"analyze_spectrum", "update_plot"} /\ an.N >= 2) =>
        /\ an.bins = an.N \div 2
        /\ an.doubled = (IF an.N % 2 = 0
                         THEN 1 .. ((an.N \div 2) - 2)
                         ELSE 1 .. ((an.N \div 2) - 1))

\* C4: a recomputation and redraw is triggered by the accepted parameter
\* transitions and only by those: an event redraws iff it changes the
\* configuration ('save', 'quit', a rejected decrease and other keys do not).
C4_RedrawOnlyOnParameterChange ==
    [][event' \in Keys => (redrawn' <=> config' # config)]_vars

\* C5: a 'save' event writes experiment_fs_<fs>_N_<N>.png with the values
\* current at the moment of the event and leaves both values unchanged.
C5_SaveNamesCurrentConfig ==
    [][event' = "s" =>
          /\ written' = "experiment_fs_" \o ToString(fs_current)
                          \o "_N_" \o ToString(N_current) \o ".png"
          /\ config' = config
      ]_vars

\* C5 witness: the view was saved in a configuration other than the initial one.
C5_Witness ==
    event = "s" /\ written = "experiment_fs_1500_N_300.png"

\* C6: after every redraw both titles carry the status 'undersampled' exactly
\* when samplingFrequency < 2200, else 'properly sampled'; at 1500 it is
\* 'undersampled', at 2500 and above 'properly sampled'.
C6_StatusLabel ==
    mode # "starting" =>
        /\ view.ax1_title = "Time Domain - "
              \o ExpectedTail(ExpectedStatus(fs_current), fs_current, N_current)
        /\ view.ax2_title = "Frequency Domain - "
              \o ExpectedTail(ExpectedStatus(fs_current), fs_current, N_current)
        /\ (fs_current = 1500 =>
              view.ax1_title = "Time Domain - "
                  \o ExpectedTail("Undersampling", 1500, N_current))
        /\ (fs_current >= 2500 =>
              view.ax2_title = "Frequency Domain - "
                  \o ExpectedTail("Proper Sampling", fs_current, N_current))

\* C6 witness: 1500 Hz was reached by five accepted decreases and redrawn.
C6_Witness ==
    /\ event = "down" /\ redrawn /\ fs_current = 1500
    /\ view.ax1_title = "Time Domain - Undersampling: Fs=1500Hz, N=1000"

\* C7: whenever the session waits for a key event the figure shows the data
\* of the current configuration: sampleCount samples taken at the current
\* rate, floor(sampleCount/2) spectrum bins, and the current fs and N in
\* both titles.
C7_NoStaleView ==
    mode = "ready" =>
        /\ ~raised
        /\ view.time_line = [n |-> N_current, fs |-> fs_current]
        /\ (view.points_visible =>
              view.sample_points = [n |-> N_current, fs |-> fs_current])
        /\ view.ax1_xmax = <<N_current - 1, fs_current>>
        /\ view.stem.bins = N_current \div 2
        /\ \E st \in {"Undersampling", "Proper Sampling"} :
              /\ view.ax1_title = "Time Domain - "
                    \o ExpectedTail(st, fs_current, N_current)
              /\ view.ax2_title = "Frequency Domain - "
                    \o ExpectedTail(st, fs_current, N_current)

\* C7 witness: an ignored key was handled in a configuration other than the
\* initial one and the figure shows that configuration.
C7_Witness ==
    /\ mode = "ready" /\ event = "x" /\ ~redrawn
    /\ fs_current = 2500 /\ N_current = 300
    /\ view.time_line.n = 300 /\ view.stem.bins = 150

\* C8: 'quit' closes the session without changing the configuration, without
\* a redraw and without writing a file, and once the session is closed no
\* key event changes anything.
C8_QuitTerminal ==
    [][ /\ event' = "q" =>
             /\ mode' = "closed"
             /\ config' = config /\ view' = view
             /\ ~redrawn' /\ written' = NoFile
        /\ mode = "closed" => UNCHANGED vars
      ]_vars

\* C8 witness: the session was closed by 'q' in a changed configuration.
C8_Witness ==
    mode = "closed" /\ event = "q" /\ fs_current # fs_init /\ N_current # N_init

\* C9: redrawing twice with an unchanged configuration gives the same figure
\* as redrawing once (same data, bins, plot elements with exactly one f1 and
\* one f2 reference line, titles), and a redraw that follows no parameter
\* change leaves the configuration and the figure as they were.
C9_RedrawIdempotent ==
    /\ [](\A once \in update_plot(view, fs_current, N_current) :
              /\ \A twice \in update_plot(once.view, fs_current, N_current) :
                    twice = once
              /\ (mode = "ready" => once.view = view)
              /\ ~once.raised
              /\ Len(SelectSeq(once.view.ax2_lines, IsRefLine)) = 2
              /\ Cardinality({i \in DOMAIN once.view.ax2_lines :
                                 once.view.ax2_lines[i] = f1_line}) = 1
              /\ Cardinality({i \in DOMAIN once.view.ax2_lines :
                                 once.view.ax2_lines[i] = f2_line}) = 1)
    /\ [][(redrawn' /\ event' = "s") => (view' = view /\ config' = config)]_vars

\* C9 witness: a redraw ran on an already drawn figure with the configuration
\* unchanged (the redraw that follows 'save').
C9_Witness ==
    /\ mode = "ready" /\ event = "s" /\ redrawn
    /\ fs_current # fs_init
    /\ view.ax2_lines = <<f1_line, f2_line, stem_markerline, stem_baseline, fit_curve>>

\* C10: in the session samplingFrequency is a multiple of 500 and sampleCount
\* a multiple of 100, the spectrum has at least 50 bins, no redraw raises,
\* and every redraw takes the cubic-spline branch.
C10_AlwaysSpline ==
    /\ fs_current % 500 = 0 /\ N_current % 100 = 0
    /\ N_current >= 2
    /\ ~raised
    /\ mode # "starting" =>
          /\ view.stem.bins >= 50
          /\ view.stem.bins > 10
          /\ view.fit = "spline"
          /\ view.time_line.n > 0

\* C10 witness: a redraw at the smallest sample count, 50 bins, spline fitted.
C10_Witness ==
    /\ redrawn /\ event = "left" /\ N_current = 100
    /\ view.stem.bins = 50 /\ view.fit = "spline"

====
